---- MODULE Spec2Model ----
(***************************************************************************)
(* Model of the authentication service of go-enterprise-auth-system:       *)
(* SignUp / Login / GetUserByID (internal/services), their HTTP handlers   *)
(* (internal/handlers), the JWT authorization gate (internal/middleware)   *)
(* and the PostgreSQL user repository with its schema.                     *)
(*                                                                         *)
(* Requests are served concurrently, one flow of control per request.      *)
(* Every statement executed on the database is one atomic step; a handler  *)
(* is cut into actions exactly at its database statements, so SignUp takes *)
(* two steps (the SELECT of the pre-check, then the INSERT) and Login and   *)
(* GetProfile one step each.  Handlers are modelled from their entry, with  *)
(* the request id already in the request context.                          *)
(*                                                                         *)
(* Package internal/auth (HashPassword, CheckPasswordHash, GenerateJWT,    *)
(* ValidateJWT, Claims) and models.User / User.ToResponse are not part of   *)
(* the sources at hand; they are modelled from the specification.          *)
(***************************************************************************)
EXTENDS Integers, Sequences, FiniteSets, TLC

----------------------------------------------------------------------------
(* Bounds *)

\* the clock runs over 0..MaxTime
MaxTime == 2

\* config.JWT.Expiration, in clock ticks
TTL == 2

\* the slots of the SignUp requests in flight at the same time: two, the
\* least number with which the pre-check of one request and the INSERT of
\* another interleave
Procs == {"s1", "s2"}

----------------------------------------------------------------------------
(* Configuration *)

\* config.JWT.Secret (default of JWT_SECRET)
JWTSecret == "your-256-bit-secret"

\* a key that is not the service's signing secret
ForeignSecret == "some-other-secret"

\* the zero time.Time of a struct field that was never assigned
ZeroTime == 0 - 1

----------------------------------------------------------------------------
(* Errors.  A Go error is nil, a models.ValidationErrors map or the value   *)
(* of fmt.Errorf(msg).                                                     *)

NoFields == [f \in {} |-> ""]

NilErr == [kind |-> "nil", msg |-> "", fields |-> NoFields]

Errorf(m) == [kind |-> "error", msg |-> m, fields |-> NoFields]

ValidationErrors(fs) == [kind |-> "validation", msg |-> "", fields |-> fs]

----------------------------------------------------------------------------
(* Strings that take part in hashing: a plaintext or a bcrypt digest.       *)

Plain(s) == [alg |-> "plain", of |-> s]

\* auth.HashPassword: the digest of a plaintext (salt and cost abstracted)
HashPassword(pw) == [alg |-> "bcrypt", of |-> pw]

\* auth.CheckPasswordHash: true exactly for a digest made from pw
CheckPasswordHash(pw, h) == h.alg = "bcrypt" /\ h.of = pw

----------------------------------------------------------------------------
(* models: requests and their validation *)

Lower == {"a", "b", "c", "d", "e", "f", "g", "h", "i", "j", "k", "l", "m",
          "n", "o", "p", "q", "r", "s", "t", "u", "v", "w", "x", "y", "z"}
Upper == {"A", "B", "C", "D", "E", "F", "G", "H", "I", "J", "K", "L", "M",
          "N", "O", "P", "Q", "R", "S", "T", "U", "V", "W", "X", "Y", "Z"}
Digit == {"0", "1", "2", "3", "4", "5", "6", "7", "8", "9"}
Letters == Lower \cup Upper
LocalChars == Letters \cup Digit \cup {".", "_", "%", "+", "-"}
DomainChars == Letters \cup Digit \cup {".", "-"}

\* an email is a sequence of characters;
\* ^[a-zA-Z0-9._%+-]+@[a-zA-Z0-9.-]+\.[a-zA-Z]{2,}$
isValidEmail(email) ==
    \E i \in 1..Len(email), j \in 1..Len(email) :
        /\ email[i] = "@" /\ email[j] = "."
        /\ 1 < i /\ i + 1 < j /\ j + 2 <= Len(email)
        /\ \A k \in 1..(i - 1) : email[k] \in LocalChars
        /\ \A k \in (i + 1)..(j - 1) : email[k] \in DomainChars
        /\ \A k \in (j + 1)..Len(email) : email[k] \in Letters

SignUpFieldError(r, f) ==
    CASE f = "username" ->
            IF r.username = "" THEN "username is required"
            ELSE IF Len(r.username) < 3 THEN "username must be at least 3 characters"
            ELSE IF Len(r.username) > 50 THEN "username must be less than 50 characters"
            ELSE ""
      [] f = "password" ->
            IF r.password = "" THEN "password is required"
            ELSE IF Len(r.password) < 8 THEN "password must be at least 8 characters"
            ELSE ""
      [] f = "email" ->
            IF r.email = <<>> THEN "email is required"
            ELSE IF ~isValidEmail(r.email) THEN "invalid email format"
            ELSE ""

\* (mutant) a validation that stops at the first failing field
SignUpRequestValidateFirstOnly(r) ==
    LET failing == {f \in {"username", "password", "email"} : SignUpFieldError(r, f) # ""}
        first == IF "username" \in failing THEN "username"
                 ELSE IF "password" \in failing THEN "password" ELSE "email"
    IN  IF failing = {} THEN NilErr
        ELSE ValidationErrors([f \in {first} |-> SignUpFieldError(r, f)])

\* SignUpRequest.Validate: the map of the failing fields, nil when empty
SignUpRequestValidate(r) ==
    LET failing == {f \in {"username", "password", "email"} : SignUpFieldError(r, f) # ""}
    IN  IF failing = {} THEN NilErr
        ELSE ValidationErrors([f \in failing |-> SignUpFieldError(r, f)])

LoginFieldError(r, f) ==
    CASE f = "username" -> IF r.username = "" THEN "username is required" ELSE ""
      [] f = "password" -> IF r.password = "" THEN "password is required" ELSE ""

\* LoginRequest.Validate
LoginRequestValidate(r) ==
    LET failing == {f \in {"username", "password"} : LoginFieldError(r, f) # ""}
    IN  IF failing = {} THEN NilErr
        ELSE ValidationErrors([f \in failing |-> LoginFieldError(r, f)])

----------------------------------------------------------------------------
(* models.User, its zero value and its public projection *)

NoUser == [id |-> "", username |-> "", email |-> <<>>, password |-> Plain(""),
           created_at |-> ZeroTime, updated_at |-> ZeroTime]

\* User.ToResponse: the identity without its password
ToResponse(u) == [id |-> u.id, username |-> u.username, email |-> u.email,
                  created_at |-> u.created_at, updated_at |-> u.updated_at]

NoUserResponse == ToResponse(NoUser)

----------------------------------------------------------------------------
(* The users table (database.RunMigrations) and postgres.UserRepository.    *)
(* A table is the set of its rows; dbOk = FALSE is a statement that fails   *)
(* for a reason of the infrastructure (connection lost, context cancelled). *)

\* (mutant) a table whose only unique columns are id and username
UniqueViolationUsernameOnly(tbl, user) ==
    \E row \in tbl : \/ row.id = user.id
                     \/ row.username = user.username

\* id UUID PRIMARY KEY, username ... UNIQUE NOT NULL, email ... UNIQUE NOT NULL:
\* the row would violate one of the three unique indexes (SQLSTATE 23505)
UniqueViolation(tbl, user) ==
    \E row \in tbl : \/ row.id = user.id
                     \/ row.username = user.username
                     \/ row.email = user.email

\* (mutant) an INSERT that replaces the rows it collides with
RepoCreateReplacing(tbl, user, t, dbOk) ==
    IF ~dbOk THEN [tbl |-> tbl, err |-> Errorf("failed to create user: db")]
    ELSE [tbl |-> {row \in tbl : /\ row.id # user.id
                                 /\ row.username # user.username
                                 /\ row.email # user.email}
                  \cup {[user EXCEPT !.created_at = t, !.updated_at = t]},
          err |-> NilErr]

\* UserRepository.Create: INSERT with created_at = updated_at = now; the
\* struct of the caller is not written
RepoCreate(tbl, user, t, dbOk) ==
    IF ~dbOk THEN [tbl |-> tbl, err |-> Errorf("failed to create user: db")]
    ELSE IF UniqueViolation(tbl, user)
         THEN [tbl |-> tbl, err |-> Errorf("user already exists")]
    ELSE [tbl |-> tbl \cup {[user EXCEPT !.created_at = t, !.updated_at = t]},
          err |-> NilErr]

\* UserRepository.GetByUsername: (user, nil), or (nil, err)
RepoGetByUsername(tbl, username, dbOk) ==
    IF ~dbOk THEN [found |-> FALSE, user |-> NoUser, err |-> Errorf("failed to get user: db")]
    ELSE IF \E row \in tbl : row.username = username
         THEN [found |-> TRUE,
               user |-> CHOOSE row \in tbl : row.username = username,
               err |-> NilErr]
    ELSE [found |-> FALSE, user |-> NoUser, err |-> Errorf("user not found")]

\* UserRepository.GetByID
RepoGetByID(tbl, id, dbOk) ==
    IF ~dbOk THEN [found |-> FALSE, user |-> NoUser, err |-> Errorf("failed to get user: db")]
    ELSE IF \E row \in tbl : row.id = id
         THEN [found |-> TRUE,
               user |-> CHOOSE row \in tbl : row.id = id,
               err |-> NilErr]
    ELSE [found |-> FALSE, user |-> NoUser, err |-> Errorf("user not found")]

\* UserRepository.Update: UPDATE ... WHERE id = $1 with updated_at = now; the
\* result of ExecContext is dropped, so a statement that matches no row
\* returns nil like one that matches
RepoUpdate(tbl, user, t, dbOk) ==
    LET others == {row \in tbl : row.id # user.id}
        target == {row \in tbl : row.id = user.id}
    IN  IF ~dbOk THEN [tbl |-> tbl, err |-> Errorf("failed to update user: db")]
        ELSE IF target # {} /\ \E row \in others : \/ row.username = user.username
                                                   \/ row.email = user.email
             THEN [tbl |-> tbl, err |-> Errorf("failed to update user: 23505")]
        ELSE [tbl |-> others \cup
                      {[row EXCEPT !.username = user.username, !.password = user.password,
                                   !.email = user.email, !.updated_at = t] : row \in target},
              err |-> NilErr]

\* UserRepository.Delete: DELETE ... WHERE id = $1, the result dropped
RepoDelete(tbl, id, dbOk) ==
    IF ~dbOk THEN [tbl |-> tbl, err |-> Errorf("failed to delete user: db")]
    ELSE [tbl |-> {row \in tbl : row.id # id}, err |-> NilErr]

----------------------------------------------------------------------------
(* Session tokens.  A string that travels in a header is a sequence of      *)
(* atoms: a space, a word without spaces, or an encoded token.              *)

NoClaims == [username |-> "", user_id |-> "", exp |-> 0]

\* the HMAC of the claims under a key: equal exactly for equal key and claims
Sign(claims, key) == [key |-> key, over |-> claims]

NoJWT == [claims |-> NoClaims, sig |-> Sign(NoClaims, "")]

Sp == [text |-> " ", jwt |-> NoJWT]

Word(w) == [text |-> w, jwt |-> NoJWT]

\* the compact encoding of a token: one atom, no space in it
Encode(tok) == << [text |-> "<jwt>", jwt |-> tok] >>

\* auth.GenerateJWT(username, secret, expiration) at time t: the subject and
\* the expiry, signed; it is given no user identifier
GenerateJWT(username, secret, expiration, t) ==
    LET claims == [username |-> username, user_id |-> "", exp |-> t + expiration]
    IN  Encode([claims |-> claims, sig |-> Sign(claims, secret)])

InvalidToken == [claims |-> NoClaims, err |-> Errorf("invalid token")]

\* auth.ValidateJWT(tokenString, secret) at time t: one error for a string
\* that does not parse, a signature that does not verify and an expired token
ValidateJWT(s, secret, t) ==
    IF Len(s) # 1 THEN InvalidToken
    ELSE IF s[1].text # "<jwt>" THEN InvalidToken
    ELSE IF s[1].jwt.sig # Sign(s[1].jwt.claims, secret) THEN InvalidToken
    ELSE IF ~(t < s[1].jwt.claims.exp) THEN InvalidToken
    ELSE [claims |-> s[1].jwt.claims, err |-> NilErr]

\* strings.Split(s, " ")
RECURSIVE Split(_)
Split(s) ==
    IF \A i \in 1..Len(s) : s[i] # Sp THEN <<s>>
    ELSE LET i == CHOOSE k \in 1..Len(s) : s[k] = Sp /\ \A m \in 1..(k - 1) : s[m] # Sp
         IN  <<SubSeq(s, 1, i - 1)>> \o Split(SubSeq(s, i + 1, Len(s)))

----------------------------------------------------------------------------
(* services.AuthService.  An outcome carries the returned value, the       *)
(* returned error and the event the service logs (message and the error    *)
(* logged with it).                                                        *)

LogEvent(m, e) == [msg |-> m, err |-> e]

\* (mutant) SignUp that looks the username up before it validates the request
ServiceSignUpCheckLookupFirst(req, tbl, dbOk) ==
    LET invalid == SignUpRequestValidate(req)
        existingUser == RepoGetByUsername(tbl, req.username, dbOk)
    IN  IF existingUser.found
        THEN [proceed |-> FALSE, err |-> Errorf("user already exists"),
              log |-> LogEvent("", NilErr)]
        ELSE IF invalid # NilErr
             THEN [proceed |-> FALSE, err |-> invalid,
                   log |-> LogEvent("validation failed", invalid)]
        ELSE [proceed |-> TRUE, err |-> NilErr, log |-> LogEvent("", NilErr)]

\* AuthService.SignUp up to its pre-check: validation, then the lookup by
\* username whose error is dropped (existingUser, _ := ...)
ServiceSignUpCheck(req, tbl, dbOk) ==
    LET invalid == SignUpRequestValidate(req)
        existingUser == RepoGetByUsername(tbl, req.username, dbOk)
    IN  IF invalid # NilErr
        THEN [proceed |-> FALSE, err |-> invalid,
              log |-> LogEvent("validation failed", invalid)]
        ELSE IF existingUser.found
             THEN [proceed |-> FALSE, err |-> Errorf("user already exists"),
                   log |-> LogEvent("", NilErr)]
        ELSE [proceed |-> TRUE, err |-> NilErr, log |-> LogEvent("", NilErr)]

\* (mutant) SignUp that stores the password as it was given
NewUserPlaintext(req, id) ==
    [id |-> id, username |-> req.username, email |-> req.email,
     password |-> Plain(req.password),
     created_at |-> ZeroTime, updated_at |-> ZeroTime]

\* the models.User that SignUp builds and hands to Create
NewUser(req, id) ==
    [id |-> id, username |-> req.username, email |-> req.email,
     password |-> HashPassword(req.password),
     created_at |-> ZeroTime, updated_at |-> ZeroTime]

\* (mutant) SignUp that calls Create before it looks at the error of the hashing
ServiceSignUpCreateBeforeHashCheck(req, tbl, id, t, hashOk, dbOk) ==
    LET user == NewUser(req, id)
        created == RepoCreate(tbl, user, t, dbOk)
    IN  IF created.err # NilErr
        THEN [tbl |-> tbl, res |-> NoUserResponse, err |-> Errorf("failed to create user"),
              log |-> LogEvent("failed to create user", created.err)]
        ELSE IF ~hashOk
             THEN [tbl |-> created.tbl, res |-> NoUserResponse,
                   err |-> Errorf("internal server error"),
                   log |-> LogEvent("failed to hash password", Errorf("hashing failure"))]
        ELSE [tbl |-> created.tbl, res |-> ToResponse(user), err |-> NilErr,
              log |-> LogEvent("user created successfully", NilErr)]

\* AuthService.SignUp from the hashing on; hashOk = FALSE is HashPassword
\* returning an error, id the fresh uuid
ServiceSignUpCreate(req, tbl, id, t, hashOk, dbOk) ==
    LET user == NewUser(req, id)
        created == RepoCreate(tbl, user, t, dbOk)
    IN  IF ~hashOk
        THEN [tbl |-> tbl, res |-> NoUserResponse, err |-> Errorf("internal server error"),
              log |-> LogEvent("failed to hash password", Errorf("hashing failure"))]
        ELSE IF created.err # NilErr
             THEN [tbl |-> tbl, res |-> NoUserResponse, err |-> Errorf("failed to create user"),
                   log |-> LogEvent("failed to create user", created.err)]
        ELSE [tbl |-> created.tbl, res |-> ToResponse(user), err |-> NilErr,
              log |-> LogEvent("user created successfully", NilErr)]

NoTokenResponse == [token |-> <<>>, expires_at |-> ZeroTime, user |-> NoUserResponse]

\* (mutant) Login that does not compare the password with the stored digest
ServiceLoginAnyPassword(req, tbl, t, dbOk) ==
    LET invalid == LoginRequestValidate(req)
        got == RepoGetByUsername(tbl, req.username, dbOk)
    IN  IF invalid # NilErr
        THEN [res |-> NoTokenResponse, err |-> invalid,
              log |-> LogEvent("validation failed", invalid)]
        ELSE IF got.err # NilErr
             THEN [res |-> NoTokenResponse, err |-> Errorf("invalid credentials"),
                   log |-> LogEvent("user not found", NilErr)]
        ELSE [res |-> [token |-> GenerateJWT(got.user.username, JWTSecret, TTL, t),
                       expires_at |-> t + TTL,
                       user |-> ToResponse(got.user)],
              err |-> NilErr,
              log |-> LogEvent("user logged in successfully", NilErr)]

\* (mutant) Login that tells the caller when the username is not stored
ServiceLoginUserNotFound(req, tbl, t, dbOk) ==
    LET invalid == LoginRequestValidate(req)
        got == RepoGetByUsername(tbl, req.username, dbOk)
    IN  IF invalid # NilErr
        THEN [res |-> NoTokenResponse, err |-> invalid,
              log |-> LogEvent("validation failed", invalid)]
        ELSE IF got.err # NilErr
             THEN [res |-> NoTokenResponse, err |-> Errorf("user not found"),
                   log |-> LogEvent("user not found", NilErr)]
        ELSE IF ~CheckPasswordHash(req.password, got.user.password)
             THEN [res |-> NoTokenResponse, err |-> Errorf("invalid credentials"),
                   log |-> LogEvent("invalid password", NilErr)]
        ELSE [res |-> [token |-> GenerateJWT(got.user.username, JWTSecret, TTL, t),
                       expires_at |-> t + TTL,
                       user |-> ToResponse(got.user)],
              err |-> NilErr,
              log |-> LogEvent("user logged in successfully", NilErr)]

\* AuthService.Login at time t
ServiceLogin(req, tbl, t, dbOk) ==
    LET invalid == LoginRequestValidate(req)
        got == RepoGetByUsername(tbl, req.username, dbOk)
    IN  IF invalid # NilErr
        THEN [res |-> NoTokenResponse, err |-> invalid,
              log |-> LogEvent("validation failed", invalid)]
        ELSE IF got.err # NilErr
             THEN [res |-> NoTokenResponse, err |-> Errorf("invalid credentials"),
                   log |-> LogEvent("user not found", NilErr)]
        ELSE IF ~CheckPasswordHash(req.password, got.user.password)
             THEN [res |-> NoTokenResponse, err |-> Errorf("invalid credentials"),
                   log |-> LogEvent("invalid password", NilErr)]
        ELSE [res |-> [token |-> GenerateJWT(got.user.username, JWTSecret, TTL, t),
                       expires_at |-> t + TTL,
                       user |-> ToResponse(got.user)],
              err |-> NilErr,
              log |-> LogEvent("user logged in successfully", NilErr)]

\* (mutant) GetUserByID that returns the stored identity as it is
ServiceGetUserByIDWholeUser(userID, tbl, dbOk) ==
    LET got == RepoGetByID(tbl, userID, dbOk)
    IN  IF got.err # NilErr
        THEN [res |-> NoUserResponse, err |-> Errorf("user not found"),
              log |-> LogEvent("user not found", NilErr)]
        ELSE [res |-> got.user, err |-> NilErr, log |-> LogEvent("", NilErr)]

\* AuthService.GetUserByID
ServiceGetUserByID(userID, tbl, dbOk) ==
    LET got == RepoGetByID(tbl, userID, dbOk)
    IN  IF got.err # NilErr
        THEN [res |-> NoUserResponse, err |-> Errorf("user not found"),
              log |-> LogEvent("user not found", NilErr)]
        ELSE [res |-> ToResponse(got.user), err |-> NilErr, log |-> LogEvent("", NilErr)]

----------------------------------------------------------------------------
(* handlers.AuthHandler: the response written for a service outcome *)

NoDetails == NoFields

\* AuthHandler.writeErrorResponse: a models.APIError with a status
APIError(message, code, status, details) ==
    [status |-> status,
     body |-> [message |-> message, code |-> code, details |-> details]]

\* AuthHandler.writeJSONResponse
JSONResponse(data, status) == [status |-> status, body |-> data]

InvalidJSON == APIError("Invalid JSON format", "INVALID_JSON", 400, NoDetails)

\* (mutant) a handler that looks for another message of the service
HandlerSignUpOtherMessage(res, err) ==
    IF err = NilErr THEN JSONResponse(res, 201)
    ELSE IF err.kind = "validation"
         THEN APIError("Validation failed", "VALIDATION_ERROR", 400, err.fields)
    ELSE IF err.msg = "username already exists"
         THEN APIError("User already exists", "USER_EXISTS", 409, NoDetails)
    ELSE APIError("Internal server error", "INTERNAL_ERROR", 500, NoDetails)

\* AuthHandler.SignUp after the call of the service
HandlerSignUp(res, err) ==
    IF err = NilErr THEN JSONResponse(res, 201)
    ELSE IF err.kind = "validation"
         THEN APIError("Validation failed", "VALIDATION_ERROR", 400, err.fields)
    ELSE IF err.msg = "user already exists"
         THEN APIError("User already exists", "USER_EXISTS", 409, NoDetails)
    ELSE APIError("Internal server error", "INTERNAL_ERROR", 500, NoDetails)

\* (mutant) a handler that writes the error of the service into its 500
HandlerLoginLeaksError(res, err) ==
    IF err = NilErr THEN JSONResponse(res, 200)
    ELSE IF err.kind = "validation"
         THEN APIError("Validation failed", "VALIDATION_ERROR", 400, err.fields)
    ELSE IF err.msg = "invalid credentials"
         THEN APIError("Invalid credentials", "INVALID_CREDENTIALS", 401, NoDetails)
    ELSE APIError(err.msg, "INTERNAL_ERROR", 500, NoDetails)

\* AuthHandler.Login after the call of the service
HandlerLogin(res, err) ==
    IF err = NilErr THEN JSONResponse(res, 200)
    ELSE IF err.kind = "validation"
         THEN APIError("Validation failed", "VALIDATION_ERROR", 400, err.fields)
    ELSE IF err.msg = "invalid credentials"
         THEN APIError("Invalid credentials", "INVALID_CREDENTIALS", 401, NoDetails)
    ELSE APIError("Internal server error", "INTERNAL_ERROR", 500, NoDetails)

\* AuthHandler.GetProfile on a request context (a map from the keys set in it)
HandlerGetProfile(ctx, tbl, dbOk) ==
    IF "user_id" \notin DOMAIN ctx
    THEN APIError("User not found in context", "NO_USER_CONTEXT", 401, NoDetails)
    ELSE LET out == ServiceGetUserByID(ctx["user_id"], tbl, dbOk)
         IN  IF out.err # NilErr
             THEN IF out.err.msg = "user not found"
                  THEN APIError("User not found", "USER_NOT_FOUND", 404, NoDetails)
                  ELSE APIError("Internal server error", "INTERNAL_ERROR", 500, NoDetails)
             ELSE JSONResponse(out.res, 200)

----------------------------------------------------------------------------
(* middleware.Middleware.JWT: the authorization gate *)

\* the context of a request that Middleware.RequestID has passed
RequestCtx == [k \in {"request_id"} |-> "rid"]

\* Middleware.writeErrorResponse: {"error": message}
MwError(message, status) == [status |-> status, body |-> [error |-> message]]

NoResponse == [status |-> 0, body |-> [error |-> ""]]

\* the context with one more value (context.WithValue)
WithValue(ctx, key, val) == [k \in DOMAIN ctx \cup {key} |-> IF k = key THEN val ELSE ctx[k]]

\* (mutant) a gate that does not count the parts of the header
JWTAnyPartCount(authHeader, t) ==
    LET parts == Split(authHeader)
        valid == ValidateJWT(parts[2], JWTSecret, t)
        ctx == WithValue(RequestCtx, "username", valid.claims.username)
    IN  IF authHeader = <<>>
        THEN [pass |-> FALSE, ctx |-> RequestCtx,
              http |-> MwError("Authorization header required", 401)]
        ELSE IF Len(parts) < 2 \/ parts[1] # <<Word("Bearer")>>
             THEN [pass |-> FALSE, ctx |-> RequestCtx,
                   http |-> MwError("Invalid authorization header format", 401)]
        ELSE IF valid.err # NilErr
             THEN [pass |-> FALSE, ctx |-> RequestCtx, http |-> MwError("Invalid token", 401)]
        ELSE [pass |-> TRUE,
              ctx |-> IF valid.claims.user_id # ""
                      THEN WithValue(ctx, "user_id", valid.claims.user_id)
                      ELSE ctx,
              http |-> NoResponse]

\* (mutant) a gate that sets the user identifier whatever the claims hold
JWTUserIDAlways(authHeader, t) ==
    LET parts == Split(authHeader)
        valid == ValidateJWT(parts[2], JWTSecret, t)
        ctx == WithValue(RequestCtx, "username", valid.claims.username)
    IN  IF authHeader = <<>>
        THEN [pass |-> FALSE, ctx |-> RequestCtx,
              http |-> MwError("Authorization header required", 401)]
        ELSE IF Len(parts) # 2 \/ parts[1] # <<Word("Bearer")>>
             THEN [pass |-> FALSE, ctx |-> RequestCtx,
                   http |-> MwError("Invalid authorization header format", 401)]
        ELSE IF valid.err # NilErr
             THEN [pass |-> FALSE, ctx |-> RequestCtx, http |-> MwError("Invalid token", 401)]
        ELSE [pass |-> TRUE,
              ctx |-> WithValue(ctx, "user_id", valid.claims.user_id),
              http |-> NoResponse]

\* (mutant) a gate that verifies with a key other than the one Login signs with
JWTOtherSecret(authHeader, t) ==
    LET parts == Split(authHeader)
        valid == ValidateJWT(parts[2], ForeignSecret, t)
        ctx == WithValue(RequestCtx, "username", valid.claims.username)
    IN  IF authHeader = <<>>
        THEN [pass |-> FALSE, ctx |-> RequestCtx,
              http |-> MwError("Authorization header required", 401)]
        ELSE IF Len(parts) # 2 \/ parts[1] # <<Word("Bearer")>>
             THEN [pass |-> FALSE, ctx |-> RequestCtx,
                   http |-> MwError("Invalid authorization header format", 401)]
        ELSE IF valid.err # NilErr
             THEN [pass |-> FALSE, ctx |-> RequestCtx, http |-> MwError("Invalid token", 401)]
        ELSE [pass |-> TRUE,
              ctx |-> IF valid.claims.user_id # ""
                      THEN WithValue(ctx, "user_id", valid.claims.user_id)
                      ELSE ctx,
              http |-> NoResponse]

\* (mutant) a gate that answers an expired token with a message of its own
JWTTellsExpiry(authHeader, t) ==
    LET parts == Split(authHeader)
        valid == ValidateJWT(parts[2], JWTSecret, t)
        ctx == WithValue(RequestCtx, "username", valid.claims.username)
    IN  IF authHeader = <<>>
        THEN [pass |-> FALSE, ctx |-> RequestCtx,
              http |-> MwError("Authorization header required", 401)]
        ELSE IF Len(parts) # 2 \/ parts[1] # <<Word("Bearer")>>
             THEN [pass |-> FALSE, ctx |-> RequestCtx,
                   http |-> MwError("Invalid authorization header format", 401)]
        ELSE IF valid.err # NilErr
             THEN [pass |-> FALSE, ctx |-> RequestCtx,
                   http |-> IF ValidateJWT(parts[2], JWTSecret, 0 - 1).err = NilErr
                            THEN MwError("Token expired", 401)
                            ELSE MwError("Invalid token", 401)]
        ELSE [pass |-> TRUE,
              ctx |-> IF valid.claims.user_id # ""
                      THEN WithValue(ctx, "user_id", valid.claims.user_id)
                      ELSE ctx,
              http |-> NoResponse]

\* Middleware.JWT on the Authorization header at time t: pass with the
\* context handed to the next handler, or the response that ends the request
JWT(authHeader, t) ==
    LET parts == Split(authHeader)
        valid == ValidateJWT(parts[2], JWTSecret, t)
        ctx == WithValue(RequestCtx, "username", valid.claims.username)
    IN  IF authHeader = <<>>
        THEN [pass |-> FALSE, ctx |-> RequestCtx,
              http |-> MwError("Authorization header required", 401)]
        ELSE IF Len(parts) # 2 \/ parts[1] # <<Word("Bearer")>>
             THEN [pass |-> FALSE, ctx |-> RequestCtx,
                   http |-> MwError("Invalid authorization header format", 401)]
        ELSE IF valid.err # NilErr
             THEN [pass |-> FALSE, ctx |-> RequestCtx, http |-> MwError("Invalid token", 401)]
        ELSE [pass |-> TRUE,
              ctx |-> IF valid.claims.user_id # ""
                      THEN WithValue(ctx, "user_id", valid.claims.user_id)
                      ELSE ctx,
              http |-> NoResponse]

----------------------------------------------------------------------------
(* Requests that clients send *)

EmailA == <<"a", "@", "x", ".", "i", "o">>
EmailB == <<"b", "@", "x", ".", "i", "o">>
EmailNoTld == <<"a", "@", "x">>

Usernames == {"alice", "bob"}

SignUpRequest(u, e, pw) == [username |-> u, email |-> e, password |-> pw]

\* the decoded body of POST /signup: requests that pass validation (two on
\* one username with different addresses and passwords, two on one address
\* with different usernames) and requests that fail it
SignUpInputs ==
    {SignUpRequest("alice", EmailA, "Password1"),
     SignUpRequest("alice", EmailB, "Password2"),
     SignUpRequest("bob", EmailA, "Password1"),
     SignUpRequest("alice", EmailNoTld, "Password1"),
     SignUpRequest("ab", EmailB, "short1")}

LoginRequest(u, pw) == [username |-> u, password |-> pw]

\* the decoded body of POST /login
LoginInputs ==
    {LoginRequest("alice", "Password1"),
     LoginRequest("alice", "Password2"),
     LoginRequest("bob", "Password1"),
     LoginRequest("alice", "")}

\* a token with the signature of tok over other claims
Tamper(tok, claims) == Encode([claims |-> claims, sig |-> tok[1].jwt.sig])

\* a token made with a key, as any holder of the key can make it
Forge(username, userID, exp, key) ==
    LET claims == [username |-> username, user_id |-> userID, exp |-> exp]
    IN  Encode([claims |-> claims, sig |-> Sign(claims, key)])

Bearer(tokenString) == <<Word("Bearer"), Sp>> \o tokenString

----------------------------------------------------------------------------
(* circuitbreaker.CircuitBreaker.  The breaker is the record of the fields  *)
(* that its mutex guards; each method that takes the mutex is one atomic    *)
(* step on it.                                                             *)

\* Config.MaxRequests, Config.Interval and Config.Timeout (in clock ticks) of
\* the breaker at hand
MaxRequests == 1
Interval == 1
Timeout == 1

\* the requests admitted in one generation are capped at MaxCalls
MaxCalls == 7

\* the default ReadyToTrip trips above this many consecutive failures
TripThreshold == 5

StateClosed == "closed"
StateHalfOpen == "half-open"
StateOpen == "open"

ErrCircuitOpen == Errorf("circuit breaker is open")
ErrTooManyRequests == Errorf("too many requests")

\* Counts after clear()
NoCounts ==
    [Requests |-> 0, TotalSuccesses |-> 0, TotalFailures |-> 0,
     ConsecutiveSuccesses |-> 0, ConsecutiveFailures |-> 0]

CountsOnRequest(c) == [c EXCEPT !.Requests = @ + 1]

CountsOnSuccess(c) ==
    [c EXCEPT !.TotalSuccesses = @ + 1, !.ConsecutiveSuccesses = @ + 1,
              !.ConsecutiveFailures = 0]

CountsOnFailure(c) ==
    [c EXCEPT !.TotalFailures = @ + 1, !.ConsecutiveFailures = @ + 1,
              !.ConsecutiveSuccesses = 0]

\* (mutant) a breaker that trips at the first failure
readyToTripAtOnce(counts) == counts.ConsecutiveFailures > 0

\* the default cb.readyToTrip of New
readyToTrip(counts) == counts.ConsecutiveFailures > TripThreshold

\* (mutant) a new generation that keeps what was counted
toNewGenerationKeepsCounts(b, t) ==
    [b EXCEPT !.generation = @ + 1,
              !.expiry = CASE b.state = StateClosed ->
                                IF Interval = 0 THEN ZeroTime ELSE t + Interval
                           [] b.state = StateOpen -> t + Timeout
                           [] OTHER -> ZeroTime]

\* CircuitBreaker.toNewGeneration at time t
toNewGeneration(b, t) ==
    [b EXCEPT !.generation = @ + 1,
              !.counts = NoCounts,
              !.expiry = CASE b.state = StateClosed ->
                                IF Interval = 0 THEN ZeroTime ELSE t + Interval
                           [] b.state = StateOpen -> t + Timeout
                           [] OTHER -> ZeroTime]

\* CircuitBreaker.setState; notified lists the calls of OnStateChange made
\* so far, each with the previous and the new state
setState(b, state, t) ==
    IF b.state = state THEN b
    ELSE [toNewGeneration([b EXCEPT !.state = state], t)
            EXCEPT !.notified = Append(@, <<b.state, state>>)]

\* (mutant) a breaker that leaves the open state at once
currentStateNoWait(b, t) ==
    CASE b.state = StateClosed ->
            IF b.expiry # ZeroTime /\ b.expiry < t THEN toNewGeneration(b, t) ELSE b
      [] b.state = StateOpen -> setState(b, StateHalfOpen, t)
      [] OTHER -> b

\* CircuitBreaker.currentState at time t: the breaker after the change that
\* the passing of time has brought (its state and generation are returned)
currentState(b, t) ==
    CASE b.state = StateClosed ->
            IF b.expiry # ZeroTime /\ b.expiry < t THEN toNewGeneration(b, t) ELSE b
      [] b.state = StateOpen ->
            IF b.expiry < t THEN setState(b, StateHalfOpen, t) ELSE b
      [] OTHER -> b

\* circuitbreaker.New at time 0
New ==
    toNewGeneration([state |-> StateClosed, generation |-> 0, counts |-> NoCounts,
                     expiry |-> ZeroTime, notified |-> <<>>], 0)

\* (mutant) an admission that does not look at the number of requests
beforeRequestNoLimit(b, t) ==
    LET c == currentState(b, t)
    IN  IF c.state = StateOpen
        THEN [cb |-> c, generation |-> c.generation, err |-> ErrCircuitOpen]
        ELSE [cb |-> [c EXCEPT !.counts = CountsOnRequest(@)],
              generation |-> c.generation, err |-> NilErr]

\* CircuitBreaker.beforeRequest at time t
beforeRequest(b, t) ==
    LET c == currentState(b, t)
    IN  IF c.state = StateOpen
        THEN [cb |-> c, generation |-> c.generation, err |-> ErrCircuitOpen]
        ELSE IF c.state = StateHalfOpen /\ c.counts.Requests >= MaxRequests
             THEN [cb |-> c, generation |-> c.generation, err |-> ErrTooManyRequests]
        ELSE [cb |-> [c EXCEPT !.counts = CountsOnRequest(@)],
              generation |-> c.generation, err |-> NilErr]

\* (mutant) a success that is counted and changes no state
onSuccessCountsOnly(b, state, t) == [b EXCEPT !.counts = CountsOnSuccess(@)]

\* CircuitBreaker.onSuccess
onSuccess(b, state, t) ==
    LET c == [b EXCEPT !.counts = CountsOnSuccess(@)]
    IN  IF state = StateHalfOpen THEN setState(c, StateClosed, t) ELSE c

\* CircuitBreaker.onFailure
onFailure(b, state, t) ==
    LET c == [b EXCEPT !.counts = CountsOnFailure(@)]
    IN  IF readyToTrip(c.counts) THEN setState(c, StateOpen, t) ELSE c

\* (mutant) a completion that records its outcome whatever the generation
afterRequestAnyGeneration(b, before, success, t) ==
    LET c == currentState(b, t)
    IN  IF success THEN onSuccess(c, c.state, t) ELSE onFailure(c, c.state, t)

\* CircuitBreaker.afterRequest at time t
afterRequest(b, before, success, t) ==
    LET c == currentState(b, t)
    IN  IF c.generation # before THEN c
        ELSE IF success THEN onSuccess(c, c.state, t)
        ELSE onFailure(c, c.state, t)

----------------------------------------------------------------------------
(* ratelimit.RateLimiter for one client and one limit type: one Redis key,  *)
(* a sorted set whose members and scores are the UnixNano readings of the  *)
(* calls.  Readings of the clock are distinct, so a member is its score.   *)

\* DefaultLimits["signup"]: Requests and Burst; Window is one hour, in ticks
Requests == 3
Burst == 5
Window == 6

\* the last reading of the clock
MaxStamp == 8

LimitType == "signup"

DefaultLimits == [signup |-> [Requests |-> Requests, Window |-> Window, Burst |-> Burst]]

\* the key before the first call; admitted lists the readings of the calls
\* that Allow has admitted
NoTraffic == [zset |-> {}, admitted |-> {}]

\* ZREMRANGEBYSCORE key 0 cutoff
ZRemRangeByScore(zset, cutoff) == {m \in zset : ~(0 <= m /\ m <= cutoff)}

\* ZCARD key
ZCard(zset) == Cardinality(zset)

\* ZADD key score member, with member = score
ZAdd(zset, member) == zset \cup {member}

\* ZREM key member
ZRem(zset, member) == zset \ {member}

\* what Allow returns
AllowResult(allowed, remaining, resetTime, err) ==
    [kind |-> "allow", allowed |-> allowed, remaining |-> remaining,
     resetTime |-> resetTime, err |-> err]

ErrRedis == Errorf("redis: pipeline failed")

\* the decision of Allow on the count that ZCARD returned
Admits(config, currentCount) == ~(currentCount >= config.Burst)

\* remaining, not below zero
Remaining(config, currentCount) ==
    IF config.Requests - currentCount - 1 < 0 THEN 0
    ELSE config.Requests - currentCount - 1

----------------------------------------------------------------------------
(* State *)

VARIABLES
    users,   \* the rows of table users
    now,     \* the clock
    pc,      \* pc[p]: "idle", or "creating" between the pre-check and the INSERT of SignUp
    cur,     \* cur[p]: the SignUp request in flight in slot p
    last,    \* the request completed last, with its response
    cb,      \* the circuit breaker: state, generation, counts, expiry, notified
    rl       \* the rate limiter: the sorted set of one Redis key, the calls admitted

vars == <<users, now, pc, cur, last, cb, rl>>

NoRequest == SignUpRequest("", <<>>, "")

NoLog == LogEvent("", NilErr)

\* a completed call of SignUp or Login: what was asked, what the service
\* returned and logged, what was written to the client, and whether the
\* hashing or the statement on the database that decides the request failed
Completed(kind, req, res, err, log, http, infra) ==
    [kind |-> kind, req |-> req, res |-> res, err |-> err, log |-> log,
     http |-> http, infra |-> infra]

\* a completed request to /profile: the Authorization header, whether the
\* gate called the next handler and with which context, and what was written
\* to the client
Gated(header, pass, ctx, http, infra) ==
    [kind |-> "profile", req |-> header, pass |-> pass, ctx |-> ctx,
     http |-> http, infra |-> infra]

Nothing == Completed("none", NoRequest, NoUserResponse, NilErr, NoLog, NoResponse, FALSE)

\* uuid.New(): an identifier no row has
IDs == <<"u1", "u2", "u3">>

FreshID(tbl) == IDs[Cardinality(tbl) + 1]

\* the token a client holds: the one returned by the login completed last,
\* kept while it is presented
HeldTokens ==
    IF last.kind = "login" /\ last.http.status = 200 THEN {last.http.body.token}
    ELSE IF last.kind = "profile" /\ last.pass /\ "user_id" \notin DOMAIN last.ctx
         THEN {Split(last.req)[2]}
    ELSE {}

\* the Authorization headers of the requests to /profile: no header,
\* another scheme, no token, a token that does not parse, a token signed
\* with another key, a token made with the service's key that carries a user
\* identifier and expires at TTL, the same with a third part after it, the
\* token a client holds and that token with its expiry moved
HeaderInputs ==
    {<<>>,
     <<Word("Basic"), Sp, Word("xyz")>>,
     <<Word("Bearer"), Sp>>,
     Bearer(<<Word("garbage")>>),
     Bearer(Forge("alice", "", MaxTime + 1, ForeignSecret)),
     Bearer(Forge("alice", "u1", TTL, JWTSecret)),
     Bearer(Forge("alice", "u1", TTL, JWTSecret)) \o <<Sp, Word("x")>>}
    \cup {Bearer(tok) : tok \in HeldTokens}
    \cup {Bearer(Tamper(tok, [tok[1].jwt.claims EXCEPT !.exp = @ + 1])) : tok \in HeldTokens}

Init ==
    /\ users = {}
    /\ now = 0
    /\ pc = [p \in Procs |-> "idle"]
    /\ cur = [p \in Procs |-> NoRequest]
    /\ last = Nothing
    /\ cb = New
    /\ rl = NoTraffic

----------------------------------------------------------------------------
(* Actions *)

\* time passes
Tick ==
    /\ now < MaxTime
    /\ now' = now + 1
    /\ UNCHANGED <<users, pc, cur, last, cb, rl>>

\* POST /signup, AuthHandler.SignUp: decoding, validation and the pre-check
SignUpBegin(p) ==
    /\ pc[p] = "idle"
    /\ \/ /\ last' = Completed("signup", NoRequest, NoUserResponse, NilErr, NoLog,
                               InvalidJSON, FALSE)
          /\ UNCHANGED <<pc, cur>>
       \/ \E req \in SignUpInputs :
          \E dbOk \in IF SignUpRequestValidate(req) = NilErr THEN BOOLEAN ELSE {TRUE} :
            LET chk == ServiceSignUpCheck(req, users, dbOk)
            IN  IF chk.proceed
                THEN /\ pc' = [pc EXCEPT ![p] = "creating"]
                     /\ cur' = [cur EXCEPT ![p] = req]
                     /\ UNCHANGED last
                ELSE /\ last' = Completed("signup", req, NoUserResponse, chk.err, chk.log,
                                          HandlerSignUp(NoUserResponse, chk.err), FALSE)
                     /\ UNCHANGED <<pc, cur>>
    /\ UNCHANGED <<users, now, cb, rl>>

\* AuthHandler.SignUp, continued: hashing, the INSERT and the response
SignUpCreate(p) ==
    /\ pc[p] = "creating"
    /\ \E hashOk \in BOOLEAN :
       \E dbOk \in IF hashOk THEN BOOLEAN ELSE {TRUE} :
         LET out == ServiceSignUpCreate(cur[p], users, FreshID(users), now, hashOk, dbOk)
         IN  /\ users' = out.tbl
             /\ last' = Completed("signup", cur[p], out.res, out.err, out.log,
                                  HandlerSignUp(out.res, out.err), ~hashOk \/ ~dbOk)
    /\ pc' = [pc EXCEPT ![p] = "idle"]
    /\ cur' = [cur EXCEPT ![p] = NoRequest]
    /\ UNCHANGED <<now, cb, rl>>

\* POST /login, AuthHandler.Login
Login ==
    /\ \/ last' = Completed("login", LoginRequest("", ""), NoTokenResponse, NilErr, NoLog,
                            InvalidJSON, FALSE)
       \/ \E req \in LoginInputs :
          \E dbOk \in IF LoginRequestValidate(req) = NilErr THEN BOOLEAN ELSE {TRUE} :
            LET out == ServiceLogin(req, users, now, dbOk)
            IN  last' = Completed("login", req, out.res, out.err, out.log,
                                  HandlerLogin(out.res, out.err), ~dbOk)
    /\ UNCHANGED <<users, now, pc, cur, cb, rl>>

\* GET /profile: Middleware.JWT in front of AuthHandler.GetProfile
Profile ==
    /\ \E header \in HeaderInputs :
       \E dbOk \in IF JWT(header, now).pass /\ "user_id" \in DOMAIN JWT(header, now).ctx
                   THEN BOOLEAN ELSE {TRUE} :
         LET gate == JWT(header, now)
         IN  last' = Gated(header, gate.pass, gate.ctx,
                           IF gate.pass THEN HandlerGetProfile(gate.ctx, users, dbOk)
                           ELSE gate.http,
                           ~dbOk)
    /\ UNCHANGED <<users, now, pc, cur, cb, rl>>

Next ==
    \/ Tick
    \/ \E p \in Procs : SignUpBegin(p)
    \/ \E p \in Procs : SignUpCreate(p)
    \/ Login
    \/ Profile

Spec == Init /\ [][Next]_vars

----------------------------------------------------------------------------
(* The validation of SignUp requests and the mapping of service outcomes to *)
(* responses, applied to requests and outcomes one by one.                  *)

Name50 == "aaaaaaaaaabbbbbbbbbbccccccccccddddddddddeeeeeeeeee"
Name51 == "aaaaaaaaaabbbbbbbbbbccccccccccddddddddddeeeeeeeeeef"

EmailLong == <<"a", ".", "b", "+", "c", "@", "x", "-", "y", ".", "c", "o", ".", "u", "k">>
EmailShortTld == <<"a", "@", "x", ".", "i">>
EmailNoLocal == <<"@", "x", ".", "i", "o">>
EmailDigitTld == <<"a", "@", "x", ".", "i", "0">>
EmailSpace == <<"a", " ", "b", "@", "x", ".", "i", "o">>
EmailTwoAt == <<"a", "@", "b", "@", "x", ".", "i", "o">>

\* the fields of the SignUp requests that validation is applied to: every
\* rule met, and broken in each of its ways
ValidateUsernames == {"", "ab", "abc", "alice", Name50, Name51}
ValidatePasswords == {"", "short1", "1234567", "12345678", "Password1"}
ValidateEmails == {<<>>, EmailA, EmailLong, EmailNoTld, EmailShortTld, EmailNoLocal,
                   EmailDigitTld, EmailSpace, EmailTwoAt}

\* the errors that AuthService.SignUp and AuthService.Login return
ServiceErrors ==
    {Errorf("user already exists"), Errorf("internal server error"),
     Errorf("failed to create user"), Errorf("invalid credentials")}

\* req.Validate() on a decoded SignUp request
ValidateSignUp ==
    /\ \E u \in ValidateUsernames, pw \in ValidatePasswords, e \in ValidateEmails :
         last' = Completed("validate", SignUpRequest(u, e, pw), NoUserResponse,
                           SignUpRequestValidate(SignUpRequest(u, e, pw)), NoLog,
                           NoResponse, FALSE)
    /\ UNCHANGED <<users, now, pc, cur, cb, rl>>

\* AuthHandler.SignUp on what AuthService.SignUp returned for a request
AnswerSignUp ==
    /\ \E req \in SignUpInputs :
       \E err \in {SignUpRequestValidate(req)} \cup
                  (IF SignUpRequestValidate(req) = NilErr THEN ServiceErrors ELSE {}) :
         LET res == IF err = NilErr THEN ToResponse(NewUser(req, IDs[1])) ELSE NoUserResponse
         IN  last' = Completed("answer-signup", req, res, err, NoLog,
                               HandlerSignUp(res, err), FALSE)
    /\ UNCHANGED <<users, now, pc, cur, cb, rl>>

\* AuthHandler.Login on what AuthService.Login returned for a request
AnswerLogin ==
    /\ \E req \in LoginInputs :
       \E err \in {LoginRequestValidate(req)} \cup
                  (IF LoginRequestValidate(req) = NilErr THEN ServiceErrors ELSE {}) :
         LET user == NewUser(SignUpRequest(req.username, EmailA, req.password), IDs[1])
             res == IF err = NilErr
                    THEN [token |-> GenerateJWT(req.username, JWTSecret, TTL, now),
                          expires_at |-> now + TTL, user |-> ToResponse(user)]
                    ELSE NoTokenResponse
         IN  last' = Completed("answer-login", req, res, err, NoLog,
                               HandlerLogin(res, err), FALSE)
    /\ UNCHANGED <<users, now, pc, cur, cb, rl>>

NextRequests ==
    \/ ValidateSignUp
    \/ AnswerSignUp
    \/ AnswerLogin

SpecRequests == Init /\ [][NextRequests]_vars

----------------------------------------------------------------------------
(* postgres.UserRepository called on its own: Create, Update and Delete on  *)
(* the users table.                                                        *)

\* a completed call of the repository: the method, the identity or the
\* identifier it was given, the error it returned
StoreCall(op, user, err, infra) == [kind |-> op, req |-> user, err |-> err, infra |-> infra]

\* the identities that callers hand to the repository
StoreUsers ==
    {NewUser(req, id) : req \in {r \in SignUpInputs : SignUpRequestValidate(r) = NilErr},
                        id \in {IDs[i] : i \in 1..Len(IDs)}}

StoreCreate ==
    /\ \E user \in StoreUsers, dbOk \in BOOLEAN :
         LET out == RepoCreate(users, user, now, dbOk)
         IN  /\ users' = out.tbl
             /\ last' = StoreCall("create", user, out.err, ~dbOk)
    /\ UNCHANGED <<now, pc, cur, cb, rl>>

StoreUpdate ==
    /\ \E user \in StoreUsers, dbOk \in BOOLEAN :
         LET out == RepoUpdate(users, user, now, dbOk)
         IN  /\ users' = out.tbl
             /\ last' = StoreCall("update", user, out.err, ~dbOk)
    /\ UNCHANGED <<now, pc, cur, cb, rl>>

StoreDelete ==
    /\ \E user \in StoreUsers, dbOk \in BOOLEAN :
         LET out == RepoDelete(users, user.id, dbOk)
         IN  /\ users' = out.tbl
             /\ last' = StoreCall("delete", [NoUser EXCEPT !.id = user.id], out.err, ~dbOk)
    /\ UNCHANGED <<now, pc, cur, cb, rl>>

NextStore ==
    \/ Tick
    \/ StoreCreate
    \/ StoreUpdate
    \/ StoreDelete

SpecStore == Init /\ [][NextStore]_vars

----------------------------------------------------------------------------
(* The handler chain of setupServer: a request passes the middlewares from  *)
(* the outermost to the innermost and then the route of the mux.  A         *)
(* middleware hands the request, with the context it has built, to the     *)
(* next; a panic unwinds through the middlewares outside of it.             *)

\* mw.Recovery(mw.Logging(mw.RequestID(mw.CORS(mux)))), outermost first
Chain == <<"Recovery", "Logging", "RequestID", "CORS">>

\* context.Background(): the context of a request as the server hands it in
Background == [k \in {} |-> ""]

Methods == {"GET", "POST", "OPTIONS"}

Paths == {"/health", "/signup", "/login", "/profile", "/"}

\* handlerPanics: the route handler panics (a nil dereference, for instance)
ChainRequest(method, path, header, handlerPanics) ==
    [method |-> method, path |-> path, header |-> header, handlerPanics |-> handlerPanics]

\* how serving ended at some depth of the chain: whether a panic is
\* unwinding, whether one was raised at all, what was written to the client,
\* whether the route handler was entered, what was logged
Outcome(panicked, raised, http, reached, log) ==
    [panicked |-> panicked, raised |-> raised, http |-> http, reached |-> reached,
     log |-> log]

\* r.Context().Value(RequestIDKey).(string) panics: the value is nil
Panic == Outcome(TRUE, TRUE, NoResponse, FALSE, {})

\* the mux: /profile behind Middleware.JWT, the other routes directly
MuxServe(req, ctx, t) ==
    LET gate == JWT(req.header, t)
    IN  IF req.path = "/profile" /\ ~gate.pass
        THEN IF gate.http = MwError("Invalid token", 401) /\ "request_id" \notin DOMAIN ctx
             THEN Panic
             ELSE Outcome(FALSE, FALSE, gate.http, FALSE, {})
        ELSE IF req.handlerPanics THEN Outcome(TRUE, TRUE, NoResponse, TRUE, {})
        ELSE Outcome(FALSE, FALSE, JSONResponse([route |-> req.path], 200), TRUE, {})

\* the handler that a chain of middlewares wraps around the mux, on a
\* request with context ctx
RECURSIVE ServeChain(_, _, _, _)
ServeChain(chain, req, ctx, t) ==
    IF chain = <<>> THEN MuxServe(req, ctx, t)
    ELSE LET next == ServeChain(Tail(chain), req, ctx, t)
         IN  CASE Head(chain) = "Recovery" ->
                    IF ~next.panicked THEN next
                    ELSE IF "request_id" \notin DOMAIN ctx
                         THEN [next EXCEPT !.http = NoResponse]
                    ELSE [next EXCEPT !.panicked = FALSE,
                                      !.http = MwError("Internal server error", 500),
                                      !.log = @ \cup {"panic recovered"}]
               [] Head(chain) = "Logging" ->
                    IF "request_id" \notin DOMAIN ctx THEN Panic
                    ELSE [next EXCEPT !.log = @ \cup {"request started"} \cup
                                             (IF next.panicked THEN {}
                                              ELSE {"request completed"})]
               [] Head(chain) = "RequestID" ->
                    ServeChain(Tail(chain), req, WithValue(ctx, "request_id", "rid"), t)
               [] Head(chain) = "CORS" ->
                    IF req.method = "OPTIONS"
                    THEN Outcome(FALSE, FALSE, JSONResponse([route |-> "cors"], 200), FALSE, {})
                    ELSE next

\* a request served by http.Server with the chain as its Handler: a panic
\* that leaves the chain ends the connection without a response
Served(req, out) ==
    [kind |-> "served", req |-> req, raised |-> out.raised, aborted |-> out.panicked,
     http |-> IF out.panicked THEN NoResponse ELSE out.http,
     reached |-> out.reached, log |-> out.log]

ServeRequest ==
    /\ \E method \in Methods, path \in Paths, header \in HeaderInputs,
          handlerPanics \in BOOLEAN :
         LET req == ChainRequest(method, path, header, handlerPanics)
         IN  last' = Served(req, ServeChain(Chain, req, Background, now))
    /\ UNCHANGED <<users, now, pc, cur, cb, rl>>

NextChain ==
    \/ Tick
    \/ ServeRequest

SpecChain == Init /\ [][NextChain]_vars

----------------------------------------------------------------------------
(* Concurrent calls of CircuitBreaker.Execute: beforeRequest, the request   *)
(* function outside of the mutex, afterRequest.                            *)

\* the Execute call in flight in a slot: the generation it was admitted in
Admitted(generation) == [generation |-> generation]

\* a completed call of Execute: the generation beforeRequest returned, what
\* the caller gets (an error, or the panic that reaches it), whether the
\* request function was invoked and how it ended
Executed(generation, err, invoked, outcome) ==
    [kind |-> "execute", generation |-> generation, err |-> err, invoked |-> invoked,
     outcome |-> outcome]

ErrRequest == Errorf("request failed")

\* the value e of a panic of the request function
PanicValue == [kind |-> "panic", msg |-> "request panicked"]

\* how a call of the request function ends
ReqOutcomes == {"returns", "fails", "panics"}

\* (mutant) an Execute that reports every call that returned no error as a
\* success, a panicking one included
SucceededUnlessError(outcome) == outcome # "fails"

\* the success flag that Execute hands to afterRequest: err == nil when req
\* returns, false from the deferred function when it panics
Succeeded(outcome) == outcome = "returns"

\* what the caller of Execute gets: the error of req, or the panic raised
\* again by the deferred function
ExecuteResult(outcome) ==
    CASE outcome = "returns" -> NilErr
      [] outcome = "fails" -> ErrRequest
      [] OTHER -> PanicValue

\* Execute up to the call of the request function
ExecuteBegin(p) ==
    /\ pc[p] = "idle"
    /\ currentState(cb, now).counts.Requests < MaxCalls
    /\ LET r == beforeRequest(cb, now)
       IN  /\ cb' = r.cb
           /\ IF r.err = NilErr
              THEN /\ pc' = [pc EXCEPT ![p] = "executing"]
                   /\ cur' = [cur EXCEPT ![p] = Admitted(r.generation)]
                   /\ UNCHANGED last
              ELSE /\ last' = Executed(r.generation, r.err, FALSE, "none")
                   /\ UNCHANGED <<pc, cur>>
    /\ UNCHANGED <<users, now, rl>>

\* the request function returns or panics and Execute calls afterRequest
ExecuteEnd(p) ==
    /\ pc[p] = "executing"
    /\ \E outcome \in ReqOutcomes :
         /\ cb' = afterRequest(cb, cur[p].generation, Succeeded(outcome), now)
         /\ last' = Executed(cur[p].generation, ExecuteResult(outcome), TRUE, outcome)
    /\ pc' = [pc EXCEPT ![p] = "idle"]
    /\ cur' = [cur EXCEPT ![p] = NoRequest]
    /\ UNCHANGED <<users, now, rl>>

NextBreaker ==
    \/ Tick
    \/ \E p \in Procs : ExecuteBegin(p)
    \/ \E p \in Procs : ExecuteEnd(p)

SpecBreaker == Init /\ [][NextBreaker]_vars

----------------------------------------------------------------------------
(* Concurrent calls of RateLimiter.Allow.  The commands of a pipeline are   *)
(* not a transaction: the server runs them one by one, and commands of      *)
(* other connections may run in between.                                   *)

\* the Allow call in flight in a slot: its reading of the clock and the count
\* that ZCARD returned
AllowCall(stamp, count) == [stamp |-> stamp, count |-> count]

\* time passes without a call
LimiterTick ==
    /\ now < MaxStamp
    /\ now' = now + 1
    /\ UNCHANGED <<users, pc, cur, last, cb, rl>>

\* Allow reads the clock, later than every earlier reading, and sends the
\* pipeline; the pipeline may fail as a whole
AllowBegin(p) ==
    /\ pc[p] = "idle"
    /\ now < MaxStamp
    /\ now' = now + 1
    /\ \E redisOk \in BOOLEAN :
         IF redisOk
         THEN /\ pc' = [pc EXCEPT ![p] = "zremrangebyscore"]
              /\ cur' = [cur EXCEPT ![p] = AllowCall(now + 1, 0)]
              /\ UNCHANGED last
         ELSE /\ last' = AllowResult(FALSE, 0, ZeroTime, ErrRedis)
              /\ UNCHANGED <<pc, cur>>
    /\ UNCHANGED <<users, cb, rl>>

\* the server runs ZREMRANGEBYSCORE of the pipeline
AllowExpire(p) ==
    /\ pc[p] = "zremrangebyscore"
    /\ rl' = [rl EXCEPT !.zset = ZRemRangeByScore(@, cur[p].stamp - DefaultLimits[LimitType].Window)]
    /\ pc' = [pc EXCEPT ![p] = "zcard"]
    /\ UNCHANGED <<users, now, cur, last, cb>>

\* the server runs ZCARD of the pipeline
AllowCount(p) ==
    /\ pc[p] = "zcard"
    /\ cur' = [cur EXCEPT ![p] = AllowCall(cur[p].stamp, ZCard(rl.zset))]
    /\ pc' = [pc EXCEPT ![p] = "zadd"]
    /\ UNCHANGED <<users, now, last, cb, rl>>

\* the server runs ZADD and EXPIRE of the pipeline; the key expires only
\* when every member is older than the window
AllowAdd(p) ==
    /\ pc[p] = "zadd"
    /\ rl' = [rl EXCEPT !.zset = ZAdd(@, cur[p].stamp)]
    /\ pc' = [pc EXCEPT ![p] = "decide"]
    /\ UNCHANGED <<users, now, cur, last, cb>>

\* Allow after Exec: the request is refused and its member removed, or it
\* is admitted
AllowEnd(p) ==
    /\ pc[p] = "decide"
    /\ LET config == DefaultLimits[LimitType]
           resetTime == cur[p].stamp + config.Window
       IN  IF Admits(config, cur[p].count)
           THEN /\ rl' = [rl EXCEPT !.admitted = @ \cup {cur[p].stamp}]
                /\ last' = AllowResult(TRUE, Remaining(config, cur[p].count), resetTime, NilErr)
           ELSE /\ rl' = [rl EXCEPT !.zset = ZRem(@, cur[p].stamp)]
                /\ last' = AllowResult(FALSE, 0, resetTime, NilErr)
    /\ pc' = [pc EXCEPT ![p] = "idle"]
    /\ cur' = [cur EXCEPT ![p] = NoRequest]
    /\ UNCHANGED <<users, now, cb>>

NextLimiter ==
    \/ LimiterTick
    \/ \E p \in Procs : AllowBegin(p)
    \/ \E p \in Procs : AllowExpire(p)
    \/ \E p \in Procs : AllowCount(p)
    \/ \E p \in Procs : AllowAdd(p)
    \/ \E p \in Procs : AllowEnd(p)

SpecLimiter == Init /\ [][NextLimiter]_vars

----------------------------------------------------------------------------
(* Properties.  While `last` is a Login or a /profile request, `users` is   *)
(* the table that request saw: every INSERT replaces `last`.               *)

Stored(username) == \E row \in users : row.username = username

\* this step completes a Login with the username and password of the SignUp
\* completed just before it, and its lookup is answered by the database
LoginAfterSignUp ==
    /\ last.kind = "signup"
    /\ last'.kind = "login"
    /\ last'.req = LoginRequest(last.req.username, last.req.password)
    /\ ~last'.infra

\* the Login completed by this step succeeds, and its token is accepted at
\* every time before TTL has elapsed
LoginSucceeds ==
    /\ last'.err = NilErr
    /\ last'.http.status = 200
    /\ \A t \in now..(now + TTL - 1) :
         /\ ValidateJWT(last'.http.body.token, JWTSecret, t).err = NilErr
         /\ ValidateJWT(last'.http.body.token, JWTSecret, t).claims.username = last.req.username

C2_UniqueUsernameAndEmail ==
    \A r1 \in users, r2 \in users :
        r1 # r2 => r1.username # r2.username /\ r1.email # r2.email

\* the INSERT of a SignUp that had passed the pre-check was rejected for a
\* username that another SignUp has stored with another email
C2_Witness ==
    /\ last.kind = "signup"
    /\ last.log = LogEvent("failed to create user", Errorf("user already exists"))
    /\ \E row \in users : row.username = last.req.username /\ row.email # last.req.email

\* C3 as stated: a SignUp whose INSERT is rejected with the uniqueness
\* conflict fails with AlreadyExists (HTTP 409), like one that the pre-check
\* rejects.
C3_ConflictIsAlreadyExists ==
    (/\ last.kind = "signup"
     /\ last.log = LogEvent("failed to create user", Errorf("user already exists")))
    => /\ last.err = Errorf("user already exists")
       /\ last.http = APIError("User already exists", "USER_EXISTS", 409, NoDetails)

WrongPassword ==
    /\ last.kind = "login"
    /\ LoginRequestValidate(last.req) = NilErr
    /\ \E row \in users : /\ row.username = last.req.username
                          /\ ~CheckPasswordHash(last.req.password, row.password)

\* the Login on record names a username that is not stored
UnknownUsername ==
    /\ last.kind = "login"
    /\ LoginRequestValidate(last.req) = NilErr
    /\ ~Stored(last.req.username)

\* C5: a Login with a stored username and a wrong password and a Login with
\* a username that is not stored get one and the same answer: the same error
\* of the service and the same status, code and message of the handler.
C5_SameAnswerForBadCredentials ==
    (WrongPassword \/ UnknownUsername)
    => /\ last.err = Errorf("invalid credentials")
       /\ last.res = NoTokenResponse
       /\ last.http = APIError("Invalid credentials", "INVALID_CREDENTIALS", 401, NoDetails)

\* a Login with a wrong password for a stored username was answered
C5_Witness == WrongPassword /\ ~last.infra /\ last.http.status = 401

\* the header is the literal Bearer, one space and one encoded token
BearerToken(h) ==
    /\ Len(h) = 3
    /\ h[1] = Word("Bearer")
    /\ h[2] = Sp
    /\ h[3].text = "<jwt>"

\* the signature of the token in atom a verifies under the signing secret
\* and time t is before its expiry
SignedAndFresh(a, t) ==
    /\ a.jwt.sig.key = JWTSecret
    /\ a.jwt.sig.over = a.jwt.claims
    /\ t < a.jwt.claims.exp

\* this step completes a request to /profile
ProfileStep == last' # last /\ last'.kind = "profile"

\* C6: the gate calls the next handler only for a header of exactly the
\* literal Bearer, a space and a token that is signed with the signing secret
\* and not expired; every other request is answered 401 by the gate itself.
C6_GatePassesOnlyValidBearer ==
    [][ProfileStep
       => /\ last'.pass <=> (BearerToken(last'.req) /\ SignedAndFresh(last'.req[3], now))
          /\ ~last'.pass
               => /\ last'.http.status = 401
                  /\ last'.http.body \in {[error |-> "Authorization header required"],
                                          [error |-> "Invalid authorization header format"],
                                          [error |-> "Invalid token"]}]_vars

\* the gate has called the next handler for a request that presents a token
\* as Login issues it
C6_Witness ==
    /\ last.kind = "profile"
    /\ last.pass
    /\ BearerToken(last.req)
    /\ last.req[3].jwt.claims.user_id = ""

\* C7 as stated: after a successful Login, GET /profile with the token that
\* Login returned, before it expires, while the identity is stored and the
\* database answers, passes the gate and is answered 200 with the username
\* of the identity that logged in.
C7_ProfileAfterLogin ==
    [][(/\ last.kind = "login"
        /\ last.http.status = 200
        /\ last'.kind = "profile"
        /\ last'.req = Bearer(last.http.body.token)
        /\ now < last.http.body.expires_at
        /\ Stored(last.req.username)
        /\ ~last'.infra)
       => /\ last'.pass
          /\ last'.http.status = 200
          /\ last'.http.body.username = last.req.username]_vars

\* C8: when the gate lets a request pass, the username in the context is
\* the subject of the presented token, and the context holds a user
\* identifier exactly when the claims carry a non-empty one (then that one).
C8_ContextFromClaims ==
    (last.kind = "profile" /\ last.pass /\ BearerToken(last.req))
    => LET claims == last.req[3].jwt.claims
       IN  /\ "username" \in DOMAIN last.ctx
           /\ last.ctx["username"] = claims.username
           /\ "user_id" \in DOMAIN last.ctx <=> claims.user_id # ""
           /\ "user_id" \in DOMAIN last.ctx => last.ctx["user_id"] = claims.user_id

\* the gate has let a request pass whose claims carry a user identifier
C8_Witness ==
    /\ last.kind = "profile"
    /\ last.pass
    /\ BearerToken(last.req)
    /\ last.req[3].jwt.claims.user_id # ""
    /\ "user_id" \in DOMAIN last.ctx

BearerOnePart(h) ==
    /\ Len(h) \in {2, 3}
    /\ h[1] = Word("Bearer")
    /\ h[2] = Sp
    /\ \A i \in 3..Len(h) : h[i] # Sp

\* C10: a token that does not parse, a token signed with another secret (or
\* whose claims were changed) and an expired token are answered by the gate
\* with the same status and the same message.
C10_OneAnswerForInvalidTokens ==
    [][(/\ ProfileStep
        /\ BearerOnePart(last'.req)
        /\ ~(BearerToken(last'.req) /\ SignedAndFresh(last'.req[3], now)))
       => /\ ~last'.pass
          /\ last'.http = MwError("Invalid token", 401)]_vars

\* an expired token with a good signature was answered "Invalid token"
C10_Witness ==
    /\ last.kind = "profile"
    /\ last.http = MwError("Invalid token", 401)
    /\ BearerToken(last.req)
    /\ last.req[3].jwt.sig = Sign(last.req[3].jwt.claims, JWTSecret)
    /\ last.req[3].jwt.claims.user_id # ""
    /\ now >= last.req[3].jwt.claims.exp

\* the passwords that requests carry
Passwords == {r.password : r \in SignUpInputs} \cup {r.password : r \in LoginInputs}

\* the SignUp requests that can have created a row
CreatedBy(row) ==
    {r \in SignUpInputs : r.username = row.username /\ r.email = row.email}

\* C11: verifying p against the hash of p2 is true exactly when p = p2, and
\* a Login that succeeds carries the password of the SignUp that created the
\* identity it names.
C11_VerifyOnlyOwnHash ==
    /\ \A p \in Passwords, p2 \in Passwords :
          CheckPasswordHash(p, HashPassword(p2)) <=> p = p2
    /\ (last.kind = "login" /\ last.http.status = 200)
       => \E row \in users :
            /\ row.username = last.req.username
            /\ row.password = HashPassword(last.req.password)
            /\ \E r \in CreatedBy(row) : r.password = last.req.password

\* a Login with the password of another SignUp request was turned down for
\* an identity created with Password1
C11_Witness ==
    /\ last.kind = "login"
    /\ last.log.msg = "invalid password"
    /\ last.req.password = "Password2"
    /\ \E row \in users : /\ row.username = last.req.username
                          /\ row.password = HashPassword("Password1")

\* C12: every stored identity has as its password the hash of the password
\* of the SignUp that created it, and never that password itself.
C12_PasswordStoredHashed ==
    \A row \in users :
        /\ row.password.alg = "bcrypt"
        /\ \E r \in CreatedBy(row) : /\ row.password = HashPassword(r.password)
                                     /\ row.password # Plain(r.password)

\* a SignUp has just stored an identity
C12_Witness ==
    /\ last.kind = "signup"
    /\ last.http.status = 201
    /\ \E row \in users : row.id = last.http.body.id

\* resp is the public projection of row: its identifier, username and
\* email, and no password
PublicOf(resp, row) ==
    /\ "password" \notin DOMAIN resp
    /\ {"id", "username", "email"} \subseteq DOMAIN resp
    /\ resp.id = row.id
    /\ resp.username = row.username
    /\ resp.email = row.email

\* C13: every successful result of SignUp, Login and GetUserByID is the
\* public projection of the identity: identifier, username and email of the
\* stored row (for SignUp also those of the request) and no password.
C13_PublicProjection ==
    /\ (last.kind = "signup" /\ last.http.status = 201)
       => /\ last.res = last.http.body
          /\ last.res.username = last.req.username
          /\ last.res.email = last.req.email
          /\ \E row \in users : PublicOf(last.res, row)
    /\ (last.kind = "login" /\ last.http.status = 200)
       => \E row \in users : /\ row.username = last.req.username
                             /\ PublicOf(last.res.user, row)
                             /\ PublicOf(last.http.body.user, row)
    /\ (last.kind = "profile" /\ last.http.status = 200)
       => \E row \in users : /\ row.id = last.ctx["user_id"]
                             /\ PublicOf(last.http.body, row)

\* GET /profile was answered 200 with a stored identity
C13_Witness ==
    /\ last.kind = "profile"
    /\ last.http.status = 200
    /\ \E row \in users : row.id = last.http.body.id

\* this step completes a SignUp or a Login whose body was decoded
ServedStep ==
    /\ last' # last
    /\ last'.kind \in {"signup", "login"}
    /\ last'.http # InvalidJSON

\* C15: a SignUp or Login whose request fails validation returns the
\* validation errors (HTTP 400), whatever the table holds and whether or not
\* the database answers; it leaves the table and the requests in flight as
\* they are and returns no identity and no token.
C15_InvalidRequestTouchesNothing ==
    [][(/\ ServedStep
        /\ \/ last'.kind = "signup" /\ SignUpRequestValidate(last'.req) # NilErr
           \/ last'.kind = "login" /\ LoginRequestValidate(last'.req) # NilErr)
       => /\ last'.err.kind = "validation"
          /\ last'.log = LogEvent("validation failed", last'.err)
          /\ last'.http = APIError("Validation failed", "VALIDATION_ERROR", 400,
                                   last'.err.fields)
          /\ last'.res \in {NoUserResponse, NoTokenResponse}
          /\ UNCHANGED <<users, pc, cur>>
          /\ \A tbl \in {{}, users}, dbOk \in BOOLEAN :
               IF last'.kind = "signup"
               THEN /\ ServiceSignUpCheck(last'.req, tbl, dbOk).err = last'.err
                    /\ ~ServiceSignUpCheck(last'.req, tbl, dbOk).proceed
               ELSE ServiceLogin(last'.req, tbl, now, dbOk).err = last'.err]_vars

\* a SignUp that fails validation was turned down for a username that is
\* stored
C15_Witness ==
    /\ last.kind = "signup"
    /\ last.err.kind = "validation"
    /\ last.http.status = 400
    /\ Stored(last.req.username)

\* C16 as stated: a Login whose lookup fails for a reason of the
\* infrastructure is answered InternalError (HTTP 500), not
\* InvalidCredentials.
C16_LoginStoreFailureIsInternal ==
    (last.kind = "login" /\ last.infra)
    => /\ last.err # Errorf("invalid credentials")
       /\ last.http = APIError("Internal server error", "INTERNAL_ERROR", 500, NoDetails)

\* C17 as stated: GetUserByID, reached through GET /profile with a user
\* identifier in the context, answers NotFound (404) exactly when no row has
\* the identifier, the public projection of the row (200) when one has, and
\* InternalError (500) when the lookup fails for a reason of the
\* infrastructure.
C17_GetUserByIDOutcomes ==
    (last.kind = "profile" /\ last.pass /\ "user_id" \in DOMAIN last.ctx)
    => IF last.infra
       THEN last.http = APIError("Internal server error", "INTERNAL_ERROR", 500, NoDetails)
       ELSE IF \E row \in users : row.id = last.ctx["user_id"]
            THEN /\ last.http.status = 200
                 /\ \E row \in users : /\ row.id = last.ctx["user_id"]
                                       /\ PublicOf(last.http.body, row)
       ELSE last.http = APIError("User not found", "USER_NOT_FOUND", 404, NoDetails)

\* C18: when hashing fails, SignUp returns the generic internal error (HTTP
\* 500 with the generic message), the table is unchanged, and the outcome
\* does not depend on the table or on the database answering: Create is not
\* called.
C18_HashFailureIsInternal ==
    [][(/\ ServedStep
        /\ last'.kind = "signup"
        /\ last'.log.msg = "failed to hash password")
       => /\ last'.err = Errorf("internal server error")
          /\ last'.res = NoUserResponse
          /\ last'.http = APIError("Internal server error", "INTERNAL_ERROR", 500, NoDetails)
          /\ users' = users
          /\ \A tbl \in {{}, users}, dbOk \in BOOLEAN :
               LET out == ServiceSignUpCreate(last'.req, tbl, FreshID(tbl), now, FALSE, dbOk)
               IN  out.tbl = tbl /\ out.err = last'.err]_vars

\* the hashing of a SignUp that had passed the pre-check has failed
C18_Witness ==
    /\ last.kind = "signup"
    /\ last.log.msg = "failed to hash password"
    /\ last.http.status = 500
    /\ SignUpRequestValidate(last.req) = NilErr

\* the addresses among ValidateEmails of the form local@domain.tld
WellFormedEmails == {EmailA, EmailLong}

\* the fields of r that break their rule: a username of a length outside
\* 3..50, a password shorter than 8, an email that is not well formed
FieldsInViolation(r) ==
    {f \in {"username"} : Len(r.username) < 3 \/ Len(r.username) > 50}
    \cup {f \in {"password"} : Len(r.password) < 8}
    \cup {f \in {"email"} : r.email \notin WellFormedEmails}

\* C14: the validation of a SignUp request returns no error when no field
\* breaks its rule, and otherwise one set of errors with an entry for exactly
\* the fields that break theirs.
C14_ValidationReportsFailingFields ==
    last.kind = "validate"
    => IF FieldsInViolation(last.req) = {}
       THEN last.err = NilErr
       ELSE /\ last.err.kind = "validation"
            /\ DOMAIN last.err.fields = FieldsInViolation(last.req)
            /\ \A f \in DOMAIN last.err.fields : last.err.fields[f] # ""

\* username ab and password short1 with a good address: both fields, and
\* only they, are reported together
C14_Witness ==
    /\ last.kind = "validate"
    /\ last.req = SignUpRequest("ab", EmailA, "short1")
    /\ last.err.kind = "validation"
    /\ DOMAIN last.err.fields = {"username", "password"}

\* this step completes an Update or a Delete that the database executed and
\* whose target identifier no row has
TargetAbsentStep ==
    /\ last' # last
    /\ last'.kind \in {"update", "delete"}
    /\ ~last'.infra
    /\ \A row \in users : row.id # last'.req.id

\* C19 as stated: Update and Delete of an identifier that no row has fail
\* with NotFound and leave the table unchanged.
C19_UpdateDeleteNotFound ==
    [][TargetAbsentStep
       => /\ last'.err = Errorf("user not found")
          /\ users' = users]_vars

\* the status that goes with an error of the service
StatusFor(kind, err) ==
    IF err = NilErr THEN IF kind = "answer-signup" THEN 201 ELSE 200
    ELSE IF err.kind = "validation" THEN 400
    ELSE IF kind = "answer-signup" /\ err = Errorf("user already exists") THEN 409
    ELSE IF kind = "answer-login" /\ err = Errorf("invalid credentials") THEN 401
    ELSE 500

\* C20: the handlers answer a success with 201 (SignUp) or 200 (Login) and
\* the result, validation errors with 400 and the map of fields, user already
\* exists (SignUp) with 409, invalid credentials (Login) with 401 and every
\* other error with 500 and the generic message only.
C20_OneStatusPerOutcome ==
    last.kind \in {"answer-signup", "answer-login"}
    => /\ last.http.status = StatusFor(last.kind, last.err)
       /\ last.http.status \in {200, 201} => last.http.body = last.res
       /\ last.http.status = 400 => last.http.body.details = last.err.fields
       /\ last.http.status = 500
            => last.http = APIError("Internal server error", "INTERNAL_ERROR", 500, NoDetails)

\* a Login that the service failed with an error of its own was answered 500
C20_Witness ==
    /\ last.kind = "answer-login"
    /\ last.err = Errorf("internal server error")
    /\ last.http.status = 500

\* this step completes a SignUp that is answered 201
SignUpSucceeds ==
    /\ last' # last
    /\ last'.kind = "signup"
    /\ last'.http.status = 201

\* C22: the table changes only at a successful SignUp, which adds exactly
\* one row (the identity it returns); a failed SignUp, a Login and a
\* GetUserByID leave the table as it is, and no row is ever changed or
\* removed.
C22_StoreGrowsOnlyBySignUp ==
    [][/\ users \subseteq users'
       /\ SignUpSucceeds
            => /\ Cardinality(users') = Cardinality(users) + 1
               /\ \E row \in users' \ users : PublicOf(last'.res, row)
       /\ ~SignUpSucceeds => users' = users
       /\ \A row \in users : \E row2 \in users' : /\ row2.id = row.id
                                                  /\ row2.username = row.username]_vars

\* a Login was served on a table of two identities
C22_Witness ==
    /\ last.kind = "login"
    /\ Cardinality(users) = 2

\* C24 as stated: the timestamps in the projection that a successful SignUp
\* returns are set, and are those of the stored row.
C24_SignUpReturnsStoredTimestamps ==
    (last.kind = "signup" /\ last.http.status = 201)
    => \E row \in users :
         /\ row.id = last.http.body.id
         /\ last.http.body.created_at # ZeroTime
         /\ last.http.body.created_at = row.created_at
         /\ last.http.body.updated_at = row.updated_at

\* C21 as stated: a panic raised while a request is served inside the chain
\* is caught by Recovery, logged and answered 500 Internal server error; it
\* does not leave the chain.
C21_PanicRecovered ==
    (last.kind = "served" /\ last.raised)
    => /\ ~last.aborted
       /\ last.http = MwError("Internal server error", 500)
       /\ "panic recovered" \in last.log

\* C23 as stated: in the chain of setupServer no read of the request ID
\* fails (no panic is raised by the middlewares), and every request that CORS
\* does not answer itself reaches its route.
C23_RequestIDReadAfterSet ==
    (last.kind = "served" /\ ~last.req.handlerPanics)
    => /\ ~last.raised
       /\ (last.req.method # "OPTIONS" /\ last.req.path # "/profile") => last.reached

\* a call of Execute admitted in the present generation is in flight
InFlightNow == \E p \in Procs : pc[p] = "executing" /\ cur[p].generation = cb.generation

\* the timeout of the open breaker has not elapsed
OpenWaiting == cb.state = StateOpen /\ ~(cb.expiry < now)

\* C25: while the breaker is open and its timeout has not elapsed, Execute
\* returns ErrCircuitOpen without invoking the request function and leaves
\* the breaker, its counts included, as it was; the breaker leaves the open
\* state only to half-open, and only once the timeout has elapsed.
C25_OpenRejects ==
    [][ /\ \A p \in Procs :
             (OpenWaiting /\ ExecuteBegin(p))
             => /\ last' = Executed(cb.generation, ErrCircuitOpen, FALSE, "none")
                /\ cb' = cb
                /\ pc' = pc
        /\ (cb.state = StateOpen /\ cb'.state # StateOpen)
             => (cb'.state = StateHalfOpen /\ cb.expiry < now) ]_vars

\* a call was rejected by the open breaker, and the breaker has since moved
\* to half-open
C25_Witness ==
    /\ last.kind = "execute"
    /\ last.err = ErrCircuitOpen
    /\ ~last.invoked
    /\ cb.state = StateHalfOpen

\* the calls of Execute in flight that were admitted in the present generation
AdmittedNow == {p \in Procs : pc[p] = "executing" /\ cur[p].generation = cb.generation}

\* C26: in one half-open period the breaker admits at most MaxRequests
\* requests under any interleaving of Execute calls: each admission counts
\* one request, and once MaxRequests are counted every further call returns
\* ErrTooManyRequests without invoking the request function.
C26_HalfOpenAdmitsAtMost ==
    [][ /\ cb'.state = StateHalfOpen
             => /\ cb'.counts.Requests <= MaxRequests
                /\ Cardinality(AdmittedNow') <= MaxRequests
        /\ \A p \in Procs :
             (ExecuteBegin(p) /\ currentState(cb, now).state = StateHalfOpen)
             => LET c == currentState(cb, now)
                IN  IF c.counts.Requests < MaxRequests
                    THEN /\ pc'[p] = "executing"
                         /\ cb'.counts.Requests = c.counts.Requests + 1
                    ELSE /\ last' = Executed(c.generation, ErrTooManyRequests, FALSE, "none")
                         /\ pc' = pc
                         /\ cb' = c ]_vars

\* a trial request of the half-open breaker is in flight and a second call
\* has been rejected in the same generation
C26_Witness ==
    /\ cb.state = StateHalfOpen
    /\ AdmittedNow # {}
    /\ last.kind = "execute"
    /\ last.err = ErrTooManyRequests
    /\ ~last.invoked
    /\ last.generation = cb.generation

\* C27 as stated: a half-open breaker does not stay half-open once its
\* admitted trial requests have completed: when all MaxRequests trials of the
\* half-open generation are done, it has moved to closed or back to open, so
\* it is never left rejecting every call with ErrTooManyRequests.
C27_HalfOpenResolves ==
    ~ (/\ cb.state = StateHalfOpen
       /\ cb.counts.Requests >= MaxRequests
       /\ ~InFlightNow)

\* C28: a closed breaker opens exactly at a failed request after which
\* ReadyToTrip(counts) holds: with the default ReadyToTrip a recorded failure
\* opens it if and only if it is the sixth consecutive one of the generation
\* (otherwise it counts one more consecutive failure), a recorded success
\* resets the consecutive failures to zero, and nothing else opens it.
C28_OpensAtSixthFailure ==
    [][ LET c == currentState(cb, now)
        IN  /\ \A p \in Procs :
                 (ExecuteEnd(p) /\ c.state = StateClosed /\ cur[p].generation = c.generation)
                 => IF last'.err = NilErr
                    THEN /\ cb'.state = StateClosed
                         /\ cb'.counts.ConsecutiveFailures = 0
                    ELSE IF c.counts.ConsecutiveFailures + 1 > TripThreshold
                    THEN cb'.state = StateOpen
                    ELSE /\ cb'.state = StateClosed
                         /\ cb'.counts.ConsecutiveFailures = c.counts.ConsecutiveFailures + 1
            /\ (cb.state = StateClosed /\ cb'.state # StateClosed)
                 => /\ cb'.state = StateOpen
                    /\ c.counts.ConsecutiveFailures = TripThreshold
                    /\ \E p \in Procs :
                         /\ ExecuteEnd(p)
                         /\ cur[p].generation = c.generation
                         /\ last'.err # NilErr ]_vars

\* the breaker is open and the call completed last is the failure of the
\* closed generation before it
C28_Witness ==
    /\ cb.state = StateOpen
    /\ last = Executed(cb.generation - 1, ErrRequest, TRUE, "fails")

\* C29: in the half-open state a successful request that was admitted in
\* the half-open generation moves the breaker to closed, in the next
\* generation and with all counts zero.
C29_HalfOpenSuccessCloses ==
    [][ \A p \in Procs :
          (/\ ExecuteEnd(p)
           /\ cb.state = StateHalfOpen
           /\ cur[p].generation = cb.generation
           /\ last'.err = NilErr)
          => /\ cb'.state = StateClosed
             /\ cb'.generation = cb.generation + 1
             /\ cb'.counts = NoCounts ]_vars

\* the trial request of the half-open generation has succeeded: the breaker
\* is closed in the generation after it, nothing counted yet
C29_Witness ==
    /\ cb.state = StateClosed
    /\ cb.counts = NoCounts
    /\ cb.generation >= 4
    /\ last = Executed(cb.generation - 1, NilErr, TRUE, "returns")

\* C30: the outcome of a request admitted in generation g is recorded only
\* if the breaker is still in generation g when the request completes (one
\* more success or failure is then counted, or the state changes); if the
\* generation has changed, the breaker is left as the passing of time alone
\* leaves it, whatever the outcome: neither counts nor state depend on it.
C30_StaleOutcomeDropped ==
    [][ \A p \in Procs :
          ExecuteEnd(p)
          => LET c == currentState(cb, now)
             IN  IF cur[p].generation # c.generation
                 THEN cb' = c
                 ELSE \/ cb'.generation # c.generation
                      \/ /\ cb'.state = c.state
                         /\ cb'.counts.Requests = c.counts.Requests
                         /\ cb'.counts.TotalSuccesses + cb'.counts.TotalFailures
                              = c.counts.TotalSuccesses + c.counts.TotalFailures + 1 ]_vars

\* a request admitted in a closed generation has succeeded after the breaker
\* had opened: the breaker is still open, nothing counted
C30_Witness ==
    /\ cb.state = StateOpen
    /\ cb.counts = NoCounts
    /\ last = Executed(cb.generation - 1, NilErr, TRUE, "returns")

\* the expiry that toNewGeneration sets at time t for a state
ExpiryFor(state, t) ==
    CASE state = StateClosed -> IF Interval = 0 THEN ZeroTime ELSE t + Interval
      [] state = StateOpen -> t + Timeout
      [] OTHER -> ZeroTime

\* C31: every state change of the breaker increments the generation by one,
\* sets all counts to zero (the request admitted by the very call that made
\* the change is then counted), sets the expiry for the new state and calls
\* OnStateChange exactly once with the previous and the new state; without a
\* state change OnStateChange is not called, and setting the state that the
\* breaker already has changes nothing.
C31_StateChangeStartsGeneration ==
    [][ /\ (cb'.state # cb.state)
             => /\ cb'.generation = cb.generation + 1
                /\ cb'.counts = IF \E p \in Procs : pc[p] = "idle" /\ pc'[p] = "executing"
                                THEN CountsOnRequest(NoCounts) ELSE NoCounts
                /\ cb'.expiry = ExpiryFor(cb'.state, now)
                /\ cb'.notified = Append(cb.notified, <<cb.state, cb'.state>>)
        /\ (cb'.state = cb.state) => cb'.notified = cb.notified
        /\ setState(cb, cb.state, now) = cb ]_vars

\* the breaker has opened, become half-open and closed again, and
\* OnStateChange was called for each of the three changes
C31_Witness ==
    /\ cb.state = StateClosed
    /\ cb.generation = 4
    /\ cb.notified = << <<StateClosed, StateOpen>>, <<StateOpen, StateHalfOpen>>,
                        <<StateHalfOpen, StateClosed>> >>

\* C32: in every reachable state of the breaker, under any interleaving of
\* Execute calls, TotalSuccesses + TotalFailures <= Requests, at most one of
\* ConsecutiveSuccesses and ConsecutiveFailures is non-zero,
\* ConsecutiveSuccesses <= TotalSuccesses and ConsecutiveFailures <=
\* TotalFailures.
C32_CountsConsistent ==
    /\ cb.counts.TotalSuccesses + cb.counts.TotalFailures <= cb.counts.Requests
    /\ (cb.counts.ConsecutiveSuccesses = 0 \/ cb.counts.ConsecutiveFailures = 0)
    /\ cb.counts.ConsecutiveSuccesses <= cb.counts.TotalSuccesses
    /\ cb.counts.ConsecutiveFailures <= cb.counts.TotalFailures

\* in a later generation successes and failures are counted, a failure
\* last, while a request of that generation is still in flight
C32_Witness ==
    /\ cb.generation > 1
    /\ cb.counts.TotalSuccesses >= 1
    /\ cb.counts.TotalFailures >= 2
    /\ cb.counts.ConsecutiveFailures = 1
    /\ cb.counts.Requests > cb.counts.TotalSuccesses + cb.counts.TotalFailures
    /\ last.kind = "execute"
    /\ last.invoked
    /\ last.generation < cb.generation

\* C33: if the request function panics inside Execute, the panic reaches
\* the caller of Execute, and a failure is recorded for the request in the
\* generation it was admitted in: one more failure is counted, or the failure
\* opens the breaker.
C33_PanicCountsAsFailure ==
    [][ \A p \in Procs :
          (ExecuteEnd(p) /\ last'.outcome = "panics")
          => LET c == currentState(cb, now)
             IN  /\ last'.err = PanicValue
                 /\ (cur[p].generation = c.generation)
                      => \/ /\ cb'.generation = c.generation
                            /\ cb'.counts.TotalFailures = c.counts.TotalFailures + 1
                            /\ cb'.counts.ConsecutiveFailures = c.counts.ConsecutiveFailures + 1
                            /\ cb'.counts.TotalSuccesses = c.counts.TotalSuccesses
                         \/ /\ c.counts.ConsecutiveFailures = TripThreshold
                            /\ cb'.state = StateOpen
                            /\ cb'.generation = c.generation + 1 ]_vars

\* a request has panicked, the panic has reached the caller and a failure is
\* counted in the generation the request was admitted in
C33_Witness ==
    /\ last.kind = "execute"
    /\ last.outcome = "panics"
    /\ last.err = PanicValue
    /\ last.generation = cb.generation
    /\ cb.counts.TotalFailures >= 1
    /\ cb.counts.ConsecutiveFailures >= 1

\* the calls admitted in the window of length Window that ends at t
AdmittedInWindow(t) == {a \in rl.admitted : t - Window < a /\ a <= t}

\* C34 as stated: for one client and one limit type, the number of requests
\* that Allow admits within any sliding window of length Window never
\* exceeds the Requests of that limit type.
C34_WindowWithinRequests ==
    \A t \in 0..MaxStamp : Cardinality(AdmittedInWindow(t)) <= Requests

\* C35 as stated: concurrent calls of Allow take effect atomically, so that
\* under any interleaving the number of requests admitted within one window
\* never exceeds Burst.
C35_WindowWithinBurst ==
    \A t \in 0..MaxStamp : Cardinality(AdmittedInWindow(t)) <= Burst

====
